---- MODULE Spec2Model ----
(***************************************************************************)
(* A model of ez-random (src/src/index.ts): the Random class (randint,     *)
(* randrange, uniform, choice, sample, shuffle, choices, gauss, random,    *)
(* clearCache) over Math.random(), and the SecureRandom class (randint,    *)
(* choice, bytes) over a secure byte source.                               *)
(*                                                                         *)
(* Numbers.  A JavaScript value is a record [t, v]:                        *)
(*   t = "int"   the integer v                                             *)
(*   t = "frac"  the non-integer finite number v + 1/2                     *)
(*   t = "nan", "inf" (v = 1: +Infinity, v = -1: -Infinity)                *)
(*   t = "str"   a value that is not a number, "undef"  undefined,         *)
(*   t = "falsy" a falsy value other than undefined (null, '', 0, false)   *)
(*   t = "array" an Array, "arraylike" an object with a length that is no  *)
(*               Array (the contents are in the variable arr)              *)
(* A draw of Math.random() is the double g / Grid for g in 0 .. Grid-1, or *)
(* one of a few doubles of all 53 bits (PreciseDraws, numbered from Grid   *)
(* on), the first of them 1 - 2^-52.  Math.floor(Math.random() * n) is the *)
(* floor of the product rounded to a double (to nearest, ties to even), as *)
(* are the quotients and sums of choices; randint is given all the draws,  *)
(* uniform the draws g / Grid and 1 - 2^-52, the other methods the draws   *)
(* g / Grid.                                                               *)
(* A secure byte has ByteBits bits (8 in the program), so that a draw of   *)
(* getRandomUint32 ranges over 0 .. Word-1 with Word = 2^(4*ByteBits).     *)
(***************************************************************************)
EXTENDS Integers, Sequences, FiniteSets, Bags, TLC

VARIABLES
    cachedGaussian, \* Random.cachedGaussian: <<>> (null) or <<u1, u2>>, the z1 of that pair
    gaussCalls,     \* history: successful gauss calls since construction / clearCache
    op,             \* the method called last
    args,           \* its arguments, a sequence of values
    arr,            \* its array argument (population, arr, seq) as it is now
    arr0,           \* its array argument as it was when the call started
    weights,        \* the weights argument of choices
    outcome,        \* "ok", the name of the error thrown, "running" or "none"
    result,         \* the returned value(s), a sequence of integers
    ndraws,         \* draws the call made from its random source
    pc,             \* "idle", or the loop a call is in
    selected,       \* sample: the Set of selected indices
    randomValue,    \* SecureRandom.randint: the draw made last
    detached,       \* the call was made through a named export: its this is undefined
    crypto          \* SecureRandom.crypto and the platform behind it: "web" (the Web
                    \* Crypto object), "node" (null, and require('crypto') is there)
                    \* or "none" (null, and require('crypto') throws)

vars == <<cachedGaussian, gaussCalls, op, args, arr, arr0, weights, outcome,
          result, ndraws, pc, selected, randomValue, detached, crypto>>

----------------------------------------------------------------------------
(* Bounds of the model *)

Grid == 8        \* resolution of Math.random(): draws are g/Grid
ByteBits == 2    \* bits of one secure byte
MaxInt == 2      \* integer arguments range over -MaxInt .. MaxInt
MaxRange == 6    \* small ranges of secure.randint
DrawCap == 3     \* ndraws saturates at DrawCap inside a rejection loop

----------------------------------------------------------------------------
(* Values *)

V(t, v) == [t |-> t, v |-> v]
I(n) == V("int", n)
NaN == V("nan", 0)
Infinity == V("inf", 1)
NotANumber == V("str", 0)
Undefined == V("undef", 0)

\* Number.isInteger(x)
IsInteger(x) == x.t = "int"
\* typeof x === 'number'
IsNumber(x) == x.t \in {"int", "frac", "nan", "inf"}
\* Number.isFinite(x)
IsFinite(x) == x.t \in {"int", "frac"}

RECURSIVE Pow2(_)
Pow2(n) == IF n = 0 THEN 1 ELSE 2 * Pow2(n - 1)

\* Math.floor(a / b) for integers a and b # 0
FloorDiv(a, b) == IF b > 0 THEN a \div b ELSE (-a) \div (-b)

\* ndraws + 1 inside a rejection loop: DrawCap stands for "DrawCap or more"
Bump(n) == IF n + 1 <= DrawCap THEN n + 1 ELSE DrawCap

----------------------------------------------------------------------------
(* Doubles.  A double d > 0 is <<hi, lo, e>>: its significand                 *)
(* hi * 2^LowBits + lo, of SigBits bits (the first of them 1), is kept in two *)
(* parts, and d is that significand times 2^(e - SigBits + 1); the double 0   *)
(* is <<0, 0, 0>>.  Quotients, sums and products are rounded to the nearest   *)
(* double, ties to even.                                                      *)

\* Math.floor(n / 2^e) for n >= 0, by halving
RECURSIVE Shr(_, _)
Shr(n, e) == IF e = 0 THEN n ELSE Shr(n \div 2, e - 1)

\* n >= 2^e, for an integer n of any size
AtLeastPow2(n, e) == n >= 1 /\ Shr(n, e) >= 1

\* the bits of the significand of a double
SigBits == 53
\* the bits of its lower part
LowBits == 26
Low == Pow2(LowBits)

Zero == <<0, 0, 0>>
One == <<Low, 0, 0>>

\* what a number has below the last bit of its significand, rest / unit of that
\* bit: 0 nothing, 1 less than half, 2 half, 3 more than half
Fraction(rest, unit) ==
    IF rest = 0 THEN 0
    ELSE IF 2 * rest < unit THEN 1
    ELSE IF 2 * rest = unit THEN 2
    ELSE 3

\* the same for (rh * 2^LowBits + rl) / (unit * 2^LowBits), unit >= 2 a power of two
FractionWide(rh, rl, unit) ==
    IF rh = 0 /\ rl = 0 THEN 0
    ELSE IF 2 * rh < unit THEN 1
    ELSE IF 2 * rh = unit /\ rl = 0 THEN 2
    ELSE 3

\* the next double above
Up(hi, lo, e) ==
    IF lo + 1 < Low THEN <<hi, lo + 1, e>>
    ELSE IF hi + 1 < 2 * Low THEN <<hi + 1, 0, e>>
    ELSE <<Low, 0, e + 1>>

\* the double nearest to the number of significand hi, lo and fraction c:
\* to nearest, ties to even
Nearest(hi, lo, e, c) ==
    IF c = 3 \/ (c = 2 /\ lo % 2 = 1) THEN Up(hi, lo, e) ELSE <<hi, lo, e>>

\* the exponent e of a / b, 2^e <= a / b < 2^(e+1), for integers a, b > 0
RECURSIVE Exponent(_, _)
Exponent(a, b) ==
    IF a >= 2 * b THEN Exponent(a, 2 * b) + 1
    ELSE IF a < b THEN Exponent(2 * a, b) - 1
    ELSE 0

\* 2^e for e >= 0, and 1 for e < 0
Scale(e) == IF e > 0 THEN Pow2(e) ELSE 1

\* Math.floor(r * 2^n / b) for 0 <= r < b: the first n bits of r / b
RECURSIVE QuotientBits(_, _, _)
QuotientBits(r, b, n) ==
    IF n = 0 THEN 0
    ELSE IF 2 * r >= b THEN Pow2(n - 1) + QuotientBits(2 * r - b, b, n - 1)
    ELSE QuotientBits(2 * r, b, n - 1)

\* (r * 2^n) % b: what is left of r after these n bits
RECURSIVE QuotientRest(_, _, _)
QuotientRest(r, b, n) ==
    IF n = 0 THEN r
    ELSE IF 2 * r >= b THEN QuotientRest(2 * r - b, b, n - 1)
    ELSE QuotientRest(2 * r, b, n - 1)

\* (a1 / b1) * 2^e for b1 <= a1 < 2 * b1
QuotientNormal(a1, b1, e) ==
    Nearest(Low + QuotientBits(a1 - b1, b1, SigBits - 1 - LowBits),
            QuotientBits(QuotientRest(a1 - b1, b1, SigBits - 1 - LowBits), b1, LowBits),
            e,
            Fraction(QuotientRest(a1 - b1, b1, SigBits - 1), b1))

\* a / b for integers a >= 0 and b > 0
Quotient(a, b) ==
    IF a = 0 THEN Zero
    ELSE QuotientNormal(a * Scale(-Exponent(a, b)), b * Scale(Exponent(a, b)), Exponent(a, b))

\* <<qh, ql, c>>: the significand hi, lo moved d bits down, 0 <= d <= SigBits,
\* and the fraction that falls below its last bit
Shifted(hi, lo, d) ==
    IF d <= LowBits
    THEN <<hi \div Pow2(d),
           (hi % Pow2(d)) * Pow2(LowBits - d) + lo \div Pow2(d),
           Fraction(lo % Pow2(d), Pow2(d))>>
    ELSE <<0, hi \div Pow2(d - LowBits),
           FractionWide(hi % Pow2(d - LowBits), lo, Pow2(d - LowBits))>>

\* the double nearest to the number of significand sh, sl (sh with one bit
\* more, maybe) and fraction c
SumNearest(sh, sl, e, c) ==
    IF sh < 2 * Low THEN Nearest(sh, sl, e, c)
    ELSE Nearest(sh \div 2, (sh % 2) * (Low \div 2) + sl \div 2, e + 1,
                 IF sl % 2 = 0 THEN (IF c = 0 THEN 0 ELSE 1)
                 ELSE (IF c = 0 THEN 2 ELSE 3))

\* x + y for a double x > 0 and the shifted significand q of y
SumShifted(x, q) ==
    SumNearest(x[1] + q[1] + (x[2] + q[2]) \div Low, (x[2] + q[2]) % Low, x[3], q[3])

\* x + y for doubles x >= y > 0, d the difference of their exponents
SumAligned(x, y, d) ==
    IF d > SigBits THEN x ELSE SumShifted(x, Shifted(y[1], y[2], d))

\* x + y
Sum(x, y) ==
    IF x = Zero THEN y
    ELSE IF y = Zero THEN x
    ELSE IF x[3] >= y[3] THEN SumAligned(x, y, x[3] - y[3])
    ELSE SumAligned(y, x, y[3] - x[3])

\* x < y
Less(x, y) ==
    IF y = Zero THEN FALSE
    ELSE IF x = Zero THEN TRUE
    ELSE IF x[3] # y[3] THEN x[3] < y[3]
    ELSE IF x[1] # y[1] THEN x[1] < y[1]
    ELSE x[2] < y[2]

\* A product is computed in limbs of LimbBits bits, the lowest first
LimbBits == 13
Limb == Pow2(LimbBits)
Limbs == 5

\* the limbs of an integer n >= 0 of SigBits bits at most
IntegerLimbs(n) == [i \in 1 .. Limbs |-> Shr(n, LimbBits * (i - 1)) % Limb]

\* the limbs of the significand of a double x > 0
SignificandLimbs(x) ==
    <<x[2] % Limb, x[2] \div Limb, x[1] % Limb, (x[1] \div Limb) % Limb, x[1] \div (Limb * Limb)>>

\* a[i] * b[j] for the limbs of weight i + j - 2 = k, none where there is no such j
Term(a, b, i, k) == IF k + 2 - i \in 1 .. Limbs THEN a[i] * b[k + 2 - i] ELSE 0

\* the sum of the products of weight k
Column(a, b, k) ==
    Term(a, b, 1, k) + Term(a, b, 2, k) + Term(a, b, 3, k) + Term(a, b, 4, k) + Term(a, b, 5, k)

\* the limbs of a * b from the weight k on, with what is carried into it
RECURSIVE Carried(_, _, _, _)
Carried(a, b, k, carry) ==
    IF k > 2 * Limbs - 2 THEN <<carry>>
    ELSE <<(Column(a, b, k) + carry) % Limb>>
             \o Carried(a, b, k + 1, (Column(a, b, k) + carry) \div Limb)

\* the limbs of a * b
LimbProduct(a, b) == Carried(a, b, 0, 0)

\* the bit of weight 2^i of the number of limbs p
Bit(p, i) == IF i < 0 THEN 0 ELSE (p[i \div LimbBits + 1] \div Pow2(i % LimbBits)) % 2

\* the number of bits of the number p > 0
BitLength(p) ==
    CHOOSE l \in 1 .. LimbBits * Len(p) :
        Bit(p, l - 1) = 1 /\ \A i \in l .. LimbBits * Len(p) - 1 : Bit(p, i) = 0

\* the number that the k bits of p from the weight 2^i down are
RECURSIVE BitsFrom(_, _, _)
BitsFrom(p, i, k) ==
    IF k <= 0 THEN 0 ELSE Bit(p, i) * Pow2(k - 1) + BitsFrom(p, i - 1, k - 1)

\* what p has below its first SigBits bits, as a fraction of the last of them
FractionBelow(p, l) ==
    IF Bit(p, l - SigBits - 1) = 1
    THEN (IF \E i \in 0 .. l - SigBits - 2 : Bit(p, i) = 1 THEN 3 ELSE 2)
    ELSE (IF \E i \in 0 .. l - SigBits - 2 : Bit(p, i) = 1 THEN 1 ELSE 0)

\* the double nearest to p * 2^(e - SigBits + 1), for the number p > 0 of l bits
ProductNearest(p, l, e) ==
    Nearest(BitsFrom(p, l - 1, SigBits - LowBits), BitsFrom(p, l - 1 - SigBits + LowBits, LowBits),
            e + l - SigBits, FractionBelow(p, l))

\* x * n for a double x and an integer n >= 0
Product(x, n) ==
    IF x = Zero \/ n = 0 THEN Zero
    ELSE ProductNearest(LimbProduct(SignificandLimbs(x), IntegerLimbs(n)),
                        BitLength(LimbProduct(SignificandLimbs(x), IntegerLimbs(n))), x[3])

\* Math.floor(x) for a double x >= 0
Floor(x) ==
    IF x = Zero \/ x[3] < 0 THEN 0
    ELSE IF x[3] <= LowBits THEN x[1] \div Pow2(LowBits - x[3])
    ELSE IF x[3] < SigBits THEN x[1] * Pow2(x[3] - LowBits) + x[2] \div Pow2(SigBits - 1 - x[3])
    ELSE (x[1] * Low + x[2]) * Pow2(x[3] - SigBits + 1)

----------------------------------------------------------------------------
(* SecureRandom *)

UINT32 == Pow2(4 * ByteBits)     \* 0x100000000
ByteValues == 0 .. Pow2(ByteBits) - 1
ByteArrays == [1 .. 4 -> ByteValues]

\* ((bytes[0] << 24) | (bytes[1] << 16) | (bytes[2] << 8) | bytes[3]) >>> 0
getRandomUint32(bytes) ==
    bytes[1] * Pow2(3 * ByteBits) + bytes[2] * Pow2(2 * ByteBits)
        + bytes[3] * Pow2(ByteBits) + bytes[4]

\* range > 0xFFFFFFFF
SecureRangeTooLargeOff(range) == range > UINT32
SecureRangeTooLarge(range) == range > UINT32 - 1

\* Math.floor(0x100000000 / range) * range
SecureMaxValidBiased(range) == UINT32
SecureMaxValid(range) == (UINT32 \div range) * range

\* the validation of secure.randint: "ok" or the error thrown
SecureRandintCheck(min, max) ==
    IF ~IsInteger(min) \/ ~IsInteger(max) THEN "TypeError"
    ELSE IF min.v > max.v THEN "RangeError"
    ELSE IF SecureRangeTooLarge(max.v - min.v + 1) THEN "RangeError"
    ELSE "ok"

\* while (randomValue >= maxValid)
SecureRejects(value, range) == value >= SecureMaxValid(range)

\* min + (randomValue % range)
SecureRandintValue(min, value, range) == min + (value % range)

\* the most bytes crypto.getRandomValues gives in one call
QuotaBytes == 65536
\* new Uint8Array(size) throws RangeError when size exceeds 2^32
TypedArrayBits == 32
\* require('crypto').randomBytes(size) throws when size exceeds 2^31 - 1
RandomBytesBits == 31

\* getRandomBytes(size) for an integer size >= 0: "ok" or the error thrown;
\* what the fallback throws is caught and thrown again as Error
GetRandomBytesCheck(size) ==
    IF crypto = "web"
    THEN IF AtLeastPow2(size - 1, TypedArrayBits) THEN "RangeError"
         ELSE IF size > QuotaBytes THEN "QuotaExceededError"
         ELSE "ok"
    ELSE IF crypto = "node"
    THEN IF AtLeastPow2(size, RandomBytesBits) THEN "Error" ELSE "ok"
    ELSE "Error"

\* secure.randint(min, max) up to its rejection loop
SecureRandintCall(min, max) ==
    /\ pc = "idle"
    /\ op' = "secure.randint"
    /\ args' = <<min, max>>
    /\ outcome' = IF SecureRandintCheck(min, max) = "ok" THEN "running"
                  ELSE SecureRandintCheck(min, max)
    /\ pc' = IF SecureRandintCheck(min, max) = "ok" THEN "secure.draw" ELSE "idle"
    /\ result' = <<>>
    /\ ndraws' = 0
    /\ randomValue' = 0
    /\ arr' = <<>> /\ arr0' = <<>> /\ weights' = <<>> /\ selected' = {}
    /\ UNCHANGED <<cachedGaussian, gaussCalls>>

\* one turn of do { randomValue = this.getRandomUint32() } while (...), and the return
SecureRandintDraw(bytes) ==
    /\ pc = "secure.draw"
    /\ LET value == getRandomUint32(bytes)
           range == args[2].v - args[1].v + 1
       IN IF GetRandomBytesCheck(4) # "ok"
          THEN /\ outcome' = GetRandomBytesCheck(4)
               /\ pc' = "idle"
               /\ UNCHANGED <<randomValue, ndraws, result>>
          ELSE /\ randomValue' = value
               /\ IF SecureRejects(value, range)
                  THEN /\ pc' = "secure.draw"
                       /\ ndraws' = Bump(ndraws)
                       /\ UNCHANGED <<outcome, result>>
                  ELSE /\ pc' = "idle"
                       /\ ndraws' = Bump(ndraws)
                       /\ outcome' = "ok"
                       /\ result' = IF op = "secure.choice"
                                     THEN <<arr[SecureRandintValue(args[1].v, value, range) + 1]>>
                                     ELSE <<SecureRandintValue(args[1].v, value, range)>>
    /\ UNCHANGED <<cachedGaussian, gaussCalls, op, args, arr, arr0, weights, selected>>

\* the validation of secure.choice, that of the randint(0, seq.length - 1) it calls included
SecureChoiceCheck(kind, seq) ==
    IF ~(kind \in {"array", "arraylike"}) THEN "TypeError"
    ELSE IF Len(seq) = 0 THEN "RangeError"
    ELSE SecureRandintCheck([t |-> "int", v |-> 0], [t |-> "int", v |-> Len(seq) - 1])

\* secure.choice(seq) up to the rejection loop of randint(0, seq.length - 1);
\* the loop's last turn returns seq[idx]
SecureChoiceCall(kind, seq) ==
    /\ pc = "idle"
    /\ op' = "secure.choice"
    /\ args' = <<[t |-> "int", v |-> 0], [t |-> "int", v |-> Len(seq) - 1]>>
    /\ outcome' = IF SecureChoiceCheck(kind, seq) = "ok" THEN "running"
                  ELSE SecureChoiceCheck(kind, seq)
    /\ pc' = IF SecureChoiceCheck(kind, seq) = "ok" THEN "secure.draw" ELSE "idle"
    /\ result' = <<>>
    /\ ndraws' = 0
    /\ randomValue' = 0
    /\ arr' = seq /\ arr0' = seq /\ weights' = <<>> /\ selected' = {}
    /\ UNCHANGED <<cachedGaussian, gaussCalls>>

\* secure.bytes(length), bs the bytes the source gives
SecureBytesCall(length, bs) ==
    /\ pc = "idle"
    /\ op' = "secure.bytes"
    /\ args' = <<length>>
    /\ IF ~IsInteger(length) \/ length.v < 0
       THEN outcome' = "TypeError" /\ result' = <<>> /\ ndraws' = 0
       ELSE IF GetRandomBytesCheck(length.v) # "ok"
       THEN outcome' = GetRandomBytesCheck(length.v) /\ result' = <<>> /\ ndraws' = 0
       ELSE outcome' = "ok" /\ result' = bs /\ ndraws' = 1
    /\ pc' = "idle"
    /\ randomValue' = 0
    /\ arr' = <<>> /\ arr0' = <<>> /\ weights' = <<>> /\ selected' = {}
    /\ UNCHANGED <<cachedGaussian, gaussCalls>>

----------------------------------------------------------------------------
(* Random: the scalar methods *)

Draws == 0 .. Grid - 1           \* Math.random() = g / Grid, g \in Draws

\* the doubles of these draws
PlainDraws == [g \in Draws |-> Quotient(g, Grid)]

\* draws of all SigBits bits: 1 - 2^-52, the largest that the Math.random()
\* of V8 returns, 1 - 2^-53, the largest double below 1, and the doubles
\* nearest to 1/3, 2/3 and 3/11
PreciseDraws ==
    <<<<2 * Low - 1, Low - 2, -1>>, <<2 * Low - 1, Low - 1, -1>>,
      Quotient(1, 3), Quotient(2, 3), Quotient(3, 11)>>

\* the draws g / Grid and, from Grid on, the draws of all bits
AllDraws == 0 .. Grid + Len(PreciseDraws) - 1

\* Math.random(), the double of the draw g
Draw(g) == IF g < Grid THEN PlainDraws[g] ELSE PreciseDraws[g - Grid + 1]

\* a range above those of -MaxInt - 1 .. MaxInt + 1
WideRange == 2 * MaxInt + 7

\* Math.floor(Math.random() * n) for the draws and 0 <= n <= WideRange
FloorProducts == [g \in AllDraws |-> [n \in 0 .. WideRange |-> Floor(Product(Draw(g), n))]]

\* Math.floor(Math.random() * n), n >= 0
FloorMul(g, n) ==
    IF n <= WideRange THEN FloorProducts[g][n] ELSE Floor(Product(Draw(g), n))

\* range > Number.MAX_SAFE_INTEGER, which is 2^53 - 1
AboveMaxSafeInteger(range) == AtLeastPow2(range, SigBits)

\* what an atomic call leaves behind
Return(o, a, oc, res, n) ==
    /\ op' = o /\ args' = a /\ outcome' = oc /\ result' = res /\ ndraws' = n
    /\ pc' = "idle"
\* a call that takes no array
NoArray == arr' = <<>> /\ arr0' = <<>> /\ weights' = <<>> /\ selected' = {}

\* the validation of randint: "ok" or the error thrown
RandintCheckRangeFirst(min, max) ==
    IF IsNumber(min) /\ IsNumber(max) /\ min.v > max.v THEN "RangeError"
    ELSE IF ~IsInteger(min) \/ ~IsInteger(max) THEN "TypeError"
    ELSE IF AboveMaxSafeInteger(max.v - min.v + 1) THEN "RangeError"
    ELSE "ok"
RandintCheck(min, max) ==
    IF ~IsInteger(min) \/ ~IsInteger(max) THEN "TypeError"
    ELSE IF min.v > max.v THEN "RangeError"
    ELSE IF AboveMaxSafeInteger(max.v - min.v + 1) THEN "RangeError"
    ELSE "ok"

\* Math.floor(Math.random() * range) + min, the product rounded to a double
RandintValueExclusive(min, max, g) == FloorMul(g, max - min) + min
RandintValue(min, max, g) == FloorMul(g, max - min + 1) + min

\* randint(min, max) with Math.random() = g / Grid
RandintCall(min, max, g) ==
    /\ pc = "idle"
    /\ IF RandintCheck(min, max) = "ok"
       THEN Return("randint", <<min, max>>, "ok", <<RandintValue(min.v, max.v, g)>>, 1)
       ELSE Return("randint", <<min, max>>, RandintCheck(min, max), <<>>, 0)
    /\ NoArray
    /\ UNCHANGED <<cachedGaussian, gaussCalls, randomValue>>

\* randrange: if (stop === undefined) { stop = start; start = 0 }
RangeStart(start, stop) == IF stop.t = "undef" THEN I(0) ELSE start
RangeStop(start, stop) == IF stop.t = "undef" THEN start ELSE stop
\* step: number = 1
RangeStep(step) == IF step.t = "undef" THEN I(1) ELSE step

\* Math.floor((width + step - (step > 0 ? 1 : -1)) / step)
RangeLengthTruncated(width, step) == FloorDiv(width, step)
RangeLength(width, step) ==
    FloorDiv(width + step - (IF step > 0 THEN 1 ELSE -1), step)

\* the validation of randrange on the effective start, stop, step
RandrangeCheck(start, stop, step) ==
    IF ~IsInteger(start) \/ ~IsInteger(stop) \/ ~IsInteger(step) THEN "TypeError"
    ELSE IF step.v = 0 THEN "RangeError"
    ELSE IF step.v > 0 /\ stop.v - start.v <= 0 THEN "RangeError"
    ELSE IF step.v < 0 /\ stop.v - start.v >= 0 THEN "RangeError"
    ELSE IF RangeLength(stop.v - start.v, step.v) <= 0 THEN "RangeError"
    ELSE "ok"

\* start + Math.floor(Math.random() * n) * step
RandrangeValue(start, stop, step, g) ==
    start + FloorMul(g, RangeLength(stop - start, step)) * step

\* randrange(start, stop?, step = 1) with Math.random() = g / Grid
RandrangeCall(a, b, c, g) ==
    /\ pc = "idle"
    /\ LET start == RangeStart(a, b)
           stop == RangeStop(a, b)
           step == RangeStep(c)
       IN IF RandrangeCheck(start, stop, step) = "ok"
          THEN Return("randrange", <<a, b, c>>, "ok",
                      <<RandrangeValue(start.v, stop.v, step.v, g)>>, 1)
          ELSE Return("randrange", <<a, b, c>>, RandrangeCheck(start, stop, step), <<>>, 0)
    /\ NoArray
    /\ UNCHANGED <<cachedGaussian, gaussCalls, randomValue>>

\* a finite number in halves: "int" v is 2v halves, "frac" v is 2v + 1 halves
Halves(x) == IF x.t = "frac" THEN 2 * x.v + 1 ELSE 2 * x.v

\* the validation of uniform
UniformCheck(min, max) ==
    IF ~IsNumber(min) \/ ~IsNumber(max) THEN "TypeError"
    ELSE IF ~IsFinite(min) \/ ~IsFinite(max) THEN "RangeError"
    ELSE IF Halves(min) > Halves(max) THEN "RangeError"
    ELSE "ok"

\* the draw 1 - 2^-52, the largest that the Math.random() of V8 returns:
\* the first of PreciseDraws
LargestDraw == Grid

\* the largest power of two that is at most h, h >= 1
RECURSIVE Binade(_)
Binade(h) == IF h < 2 THEN 1 ELSE 2 * Binade(h \div 2)

\* d - fl((1 - 2^-52) * d) for d = hd / 2 >= 0, in units of 2^-54: the exact
\* product d - d * 2^-52 rounded to the nearest double, ties to even
ProductGap(hd) ==
    IF hd = 0 THEN 0
    ELSE IF hd = Binade(hd) \/ 2 * hd < 3 * Binade(hd) THEN 2 * Binade(hd)
    ELSE 4 * Binade(hd)

\* the distance from x = hx / 2 # 0 to the next double below it, in units of 2^-54
SpacingBelow(hx) ==
    IF hx > 0 THEN (IF hx = Binade(hx) THEN hx ELSE 2 * Binade(hx))
    ELSE 2 * Binade(-hx)

\* max - fl(fl((1 - 2^-52) * (max - min)) + min), in units of 2^-54, and 0
\* for a draw g / Grid, whose product and sum are doubles: the sum is max
\* less the gap of the product, which rounds to max when the gap is less
\* than the spacing of the doubles below max (half of it at most: ties to even)
UniformGap(min, max, g) ==
    LET gap == ProductGap(Halves(max) - Halves(min))
    IN IF g # LargestDraw THEN 0
       ELSE IF Halves(max) = 0 \/ gap >= SpacingBelow(Halves(max)) THEN gap
       ELSE 0

\* Math.random() * (max - min) + min as <<n, e>>: the double
\* n / (2 * Grid) - e * 2^-54
UniformValue(min, max, g) ==
    <<g * (Halves(max) - Halves(min)) + Halves(min) * Grid, UniformGap(min, max, g)>>

\* uniform(min, max) with Math.random() = g / Grid, or 1 - 2^-52 for g = LargestDraw
UniformCall(min, max, g) ==
    /\ pc = "idle"
    /\ IF UniformCheck(min, max) = "ok"
       THEN Return("uniform", <<min, max>>, "ok", UniformValue(min, max, g), 1)
       ELSE Return("uniform", <<min, max>>, UniformCheck(min, max), <<>>, 0)
    /\ NoArray
    /\ UNCHANGED <<cachedGaussian, gaussCalls, randomValue>>

\* random(): Math.random(), returned as the numerator g of g / Grid
RandomCall(g) ==
    /\ pc = "idle"
    /\ Return("random", <<>>, "ok", <<g>>, 1)
    /\ NoArray
    /\ UNCHANGED <<cachedGaussian, gaussCalls, randomValue>>

----------------------------------------------------------------------------
(* Random: the sequence methods.  An array is a sequence of integers; index  *)
(* i of the program is position i + 1 here.                                  *)

\* Array.isArray(x)
IsArray(kind) == kind = "array"
\* seq && typeof seq.length === 'number'
IsArrayLike(kind) == kind \in {"array", "arraylike"}

\* the validation of choice
ChoiceCheck(kind, seq) ==
    IF ~IsArrayLike(kind) THEN "TypeError"
    ELSE IF Len(seq) = 0 THEN "RangeError"
    ELSE "ok"

\* seq[Math.floor(Math.random() * seq.length)]
ChoiceValue(seq, g) == seq[FloorMul(g, Len(seq)) + 1]

\* choice(seq) with Math.random() = g / Grid
ChoiceCall(kind, seq, g) ==
    /\ pc = "idle"
    /\ IF ChoiceCheck(kind, seq) = "ok"
       THEN Return("choice", <<V(kind, 0)>>, "ok", <<ChoiceValue(seq, g)>>, 1)
       ELSE Return("choice", <<V(kind, 0)>>, ChoiceCheck(kind, seq), <<>>, 0)
    /\ arr' = seq /\ arr0' = seq /\ weights' = <<>> /\ selected' = {}
    /\ UNCHANGED <<cachedGaussian, gaussCalls, randomValue>>

\* [arr[i], arr[j]] = [arr[j], arr[i]]
Swap(a, i, j) ==
    [p \in 1 .. Len(a) |-> IF p = i + 1 THEN a[j + 1] ELSE IF p = j + 1 THEN a[i + 1] ELSE a[p]]

\* const j = Math.floor(Math.random() * (i + 1))
ShuffleIndexSattolo(g, i) == FloorMul(g, i)
ShuffleIndex(g, i) == FloorMul(g, i + 1)

\* for (let i = arr.length - 1; i > 0; i--) { j = ...; swap }, from index i on;
\* us[i] is the draw made at index i
RECURSIVE FisherYates(_, _, _)
FisherYates(a, i, us) ==
    IF i <= 0 THEN a
    ELSE FisherYates(Swap(a, i, ShuffleIndex(us[i], i)), i - 1, us)

\* the draws of one shuffle of n elements
DrawVectors(n) == [1 .. n - 1 -> Draws]

\* shuffle(arr), us its draws
ShuffleCallLateCheck(kind, a, us) ==
    /\ pc = "idle"
    /\ Return("shuffle", <<V(kind, 0)>>, IF IsArray(kind) THEN "ok" ELSE "TypeError", <<>>,
              IF IsArray(kind) THEN Len(us) ELSE 0)
    /\ arr' = FisherYates(a, Len(a) - 1, us)
    /\ arr0' = a /\ weights' = <<>> /\ selected' = {}
    /\ UNCHANGED <<cachedGaussian, gaussCalls, randomValue>>
ShuffleCall(kind, a, us) ==
    /\ pc = "idle"
    /\ IF IsArray(kind)
       THEN /\ Return("shuffle", <<V(kind, 0)>>, "ok", <<>>, Len(us))
            /\ arr' = FisherYates(a, Len(a) - 1, us)
       ELSE /\ Return("shuffle", <<V(kind, 0)>>, "TypeError", <<>>, 0)
            /\ arr' = a
    /\ arr0' = a /\ weights' = <<>> /\ selected' = {}
    /\ UNCHANGED <<cachedGaussian, gaussCalls, randomValue>>

\* the validation of sample
SampleCheck(kind, population, k) ==
    IF ~IsArray(kind) THEN "TypeError"
    ELSE IF ~IsInteger(k) \/ k.v < 0 THEN "RangeError"
    ELSE IF k.v > Len(population) THEN "RangeError"
    ELSE "ok"

\* k > n / 2
SampleShufflesLate(k, n) == k > n
SampleShuffles(k, n) == 2 * k > n

\* sample(population, k) up to its rejection loop; with k > n/2 the whole call:
\* copied = [...population]; this.shuffle(copied); return copied.slice(0, k)
SampleCall(kind, population, k, us) ==
    /\ pc = "idle"
    /\ op' = "sample" /\ args' = <<V(kind, 0), k>>
    /\ arr' = population /\ arr0' = population /\ weights' = <<>> /\ selected' = {}
    /\ IF SampleCheck(kind, population, k) # "ok"
       THEN /\ outcome' = SampleCheck(kind, population, k)
            /\ result' = <<>> /\ ndraws' = 0 /\ pc' = "idle"
       ELSE IF SampleShuffles(k.v, Len(population))
       THEN /\ outcome' = "ok"
            /\ result' = SubSeq(FisherYates(population, Len(population) - 1, us), 1, k.v)
            /\ ndraws' = Len(us) /\ pc' = "idle"
       ELSE /\ outcome' = IF k.v = 0 THEN "ok" ELSE "running"
            /\ pc' = IF k.v = 0 THEN "idle" ELSE "sample.loop"
            /\ result' = <<>> /\ ndraws' = 0
    /\ UNCHANGED <<cachedGaussian, gaussCalls, randomValue>>

\* !selected.has(idx)
SampleAcceptsAny(idx, sel) == TRUE
SampleAccepts(idx, sel) == idx \notin sel

\* one turn of while (result.length < k): a draw, kept unless its index is selected
\* already; the call returns when result.length reaches k
SampleStep(g) ==
    /\ pc = "sample.loop"
    /\ Len(result) < args[2].v
    /\ LET idx == FloorMul(g, Len(arr))
       IN IF SampleAccepts(idx, selected)
          THEN /\ selected' = selected \cup {idx}
               /\ result' = Append(result, arr[idx + 1])
               /\ pc' = IF Len(result) + 1 < args[2].v THEN "sample.loop" ELSE "idle"
               /\ outcome' = IF Len(result) + 1 < args[2].v THEN "running" ELSE "ok"
          ELSE UNCHANGED <<selected, result, pc, outcome>>
    /\ ndraws' = Bump(ndraws)
    /\ UNCHANGED <<cachedGaussian, gaussCalls, op, args, arr, arr0, weights, randomValue>>

----------------------------------------------------------------------------
(* Random.choices.  A weight is an integer (negative: an invalid weight).     *)
(* The quotients w / sum and their sums acc are doubles.                      *)

RECURSIVE SumTo(_, _)
\* weights[0] + ... + weights[i - 1]
SumTo(w, i) == IF i = 0 THEN 0 ELSE SumTo(w, i - 1) + w[i]

\* weights.reduce((a, b) => a + b, 0)
WeightSum(w) == SumTo(w, Len(w))

\* k: number = 1
ChoicesK(k) == IF k.t = "undef" THEN I(1) ELSE k

\* !weights
WeightsOmitted(wkind) == wkind \in {"undef", "falsy"}

\* the validation of choices; wkind is "undef" when no weights are given
ChoicesCheck(kind, population, wkind, w, k) ==
    IF ~IsArray(kind) THEN "TypeError"
    ELSE IF Len(population) = 0 THEN "RangeError"
    ELSE IF ~IsInteger(k) \/ k.v < 0 THEN "RangeError"
    ELSE IF WeightsOmitted(wkind) THEN "ok"
    ELSE IF ~IsArray(wkind) THEN "TypeError"
    ELSE IF Len(w) # Len(population) THEN "RangeError"
    ELSE IF \E i \in 1 .. Len(w) : w[i] < 0 THEN "RangeError"
    ELSE IF WeightSum(w) <= 0 THEN "RangeError"
    ELSE "ok"

\* for (const w of weights) { acc += w / sum; cumulative.push(acc) }, from
\* weights[i] on, acc the value pushed for weights[i]
RECURSIVE Accumulate(_, _, _, _)
Accumulate(w, sum, i, acc) ==
    IF i = Len(w) - 1 THEN <<acc>>
    ELSE <<acc>> \o Accumulate(w, sum, i + 1, Sum(acc, Quotient(w[i + 2], sum)))

\* cumulative, after cumulative[cumulative.length - 1] = 1
Cumulative(w) ==
    [Accumulate(w, WeightSum(w), 0, Sum(Zero, Quotient(w[1], WeightSum(w))))
        EXCEPT ![Len(w)] = One]

\* binarySearch(target), from left and right on
RECURSIVE BinarySearch(_, _, _, _)
BinarySearch(cum, target, left, right) ==
    IF left < right
    THEN LET mid == (left + right) \div 2
         IN IF Less(cum[mid + 1], target)
            THEN BinarySearch(cum, target, mid + 1, right)
            ELSE BinarySearch(cum, target, left, mid)
    ELSE left

\* the index choices locates for the draw r = g / Grid
ChoicesIndex(w, g) == BinarySearch(Cumulative(w), Draw(g), 0, Len(w) - 1)

\* choices(population, weights?, k = 1), rs its draws
ChoicesCall(kind, population, wkind, w, k0, rs) ==
    /\ pc = "idle"
    /\ LET k == ChoicesK(k0)
           check == ChoicesCheck(kind, population, wkind, w, k)
       IN IF check # "ok"
          THEN Return("choices", <<V(kind, 0), V(wkind, 0), k0>>, check, <<>>, 0)
          ELSE IF WeightsOmitted(wkind)
          THEN Return("choices", <<V(kind, 0), V(wkind, 0), k0>>, "ok",
                      [i \in 1 .. k.v |-> ChoiceValue(population, rs[i])], k.v)
          ELSE Return("choices", <<V(kind, 0), V(wkind, 0), k0>>, "ok",
                      [i \in 1 .. k.v |-> population[ChoicesIndex(w, rs[i]) + 1]], k.v)
    /\ arr' = population /\ arr0' = population /\ weights' = w /\ selected' = {}
    /\ UNCHANGED <<cachedGaussian, gaussCalls, randomValue>>

----------------------------------------------------------------------------
(* Random.gauss and clearCache.  The standard normal values of the pair      *)
(* (u1, u2) are kept as the pair itself: z0 is <<0, u1, u2>>, z1 <<1, u1,    *)
(* u2>>; the value z * sigma + mu is <<0 or 1, u1, u2, sigma, mu>>, sigma    *)
(* and mu in halves.                                                         *)

\* gauss(mu: number = 0, sigma: number = 1)
GaussMu(mu) == IF mu.t = "undef" THEN I(0) ELSE mu
GaussSigma(sigma) == IF sigma.t = "undef" THEN I(1) ELSE sigma

\* the validation of gauss
GaussCheck(mu, sigma) ==
    IF ~IsNumber(mu) \/ ~IsNumber(sigma) THEN "TypeError"
    ELSE IF ~IsFinite(mu) \/ ~IsFinite(sigma) THEN "RangeError"
    ELSE IF Halves(sigma) <= 0 THEN "RangeError"
    ELSE "ok"

\* value * sigma + mu
ScaledStandard(z, mu, sigma) == z \o <<Halves(I(1)), Halves(I(0))>>
Scaled(z, mu, sigma) == z \o <<Halves(sigma), Halves(mu)>>

\* this.cachedGaussian = null, after the cached value is used
CacheAfterUseKept(cache) == cache
CacheAfterUse(cache) == <<>>

\* gauss(mu, sigma) up to its Box-Muller loop; with a cached value the whole call
GaussCall(mu0, sigma0) ==
    /\ pc = "idle"
    /\ LET mu == GaussMu(mu0)
           sigma == GaussSigma(sigma0)
       IN /\ op' = "gauss" /\ args' = <<mu, sigma>>
          /\ IF GaussCheck(mu, sigma) # "ok"
             THEN /\ outcome' = GaussCheck(mu, sigma)
                  /\ result' = <<>> /\ pc' = "idle"
                  /\ UNCHANGED <<cachedGaussian, gaussCalls>>
             ELSE IF cachedGaussian # <<>>
             THEN /\ outcome' = "ok"
                  /\ result' = Scaled(<<1>> \o cachedGaussian, mu, sigma)
                  /\ cachedGaussian' = CacheAfterUse(cachedGaussian)
                  /\ gaussCalls' = gaussCalls + 1
                  /\ pc' = "idle"
             ELSE /\ outcome' = "running"
                  /\ result' = <<>> /\ pc' = "gauss.draw"
                  /\ UNCHANGED <<cachedGaussian, gaussCalls>>
    /\ ndraws' = 0
    /\ NoArray
    /\ UNCHANGED randomValue

\* one turn of do { u1 = Math.random(); u2 = Math.random() } while (u1 === 0),
\* and after the loop: this.cachedGaussian = z1; return z0 * sigma + mu
GaussDraw(g1, g2) ==
    /\ pc = "gauss.draw"
    /\ ndraws' = Bump(Bump(ndraws))
    /\ IF g1 = 0
       THEN UNCHANGED <<cachedGaussian, gaussCalls, outcome, result, pc>>
       ELSE /\ cachedGaussian' = <<g1, g2>>
            /\ result' = Scaled(<<0, g1, g2>>, args[1], args[2])
            /\ gaussCalls' = gaussCalls + 1
            /\ outcome' = "ok"
            /\ pc' = "idle"
    /\ UNCHANGED <<op, args, arr, arr0, weights, selected, randomValue>>

\* clearCache()
ClearCacheCall ==
    /\ pc = "idle"
    /\ cachedGaussian' = <<>>
    /\ gaussCalls' = 0
    /\ Return("clearCache", <<>>, "ok", <<>>, 0)
    /\ NoArray
    /\ UNCHANGED randomValue

----------------------------------------------------------------------------
(* The named exports { randint, uniform, choice, sample, shuffle, choices,   *)
(* gauss } = random: the methods as bare functions, whose this is undefined. *)
(* randint, uniform, choice and shuffle do not read this; the other three    *)
(* throw a TypeError where they read a property of it.                       *)

\* a call of a method on its instance, a call of a named export, a turn of a loop
OnInstance(call) == call /\ detached' = FALSE /\ UNCHANGED crypto
Exported(call) == call /\ detached' = TRUE /\ UNCHANGED crypto
Turn(step) == step /\ UNCHANGED <<detached, crypto>>

\* sample(population, k) with this undefined: this.shuffle(copied) throws
SampleExport(kind, population, k, us) ==
    IF SampleCheck(kind, population, k) = "ok" /\ SampleShuffles(k.v, Len(population))
    THEN /\ pc = "idle"
         /\ Return("sample", <<V(kind, 0), k>>, "TypeError", <<>>, 0)
         /\ arr' = population /\ arr0' = population /\ weights' = <<>> /\ selected' = {}
         /\ UNCHANGED <<cachedGaussian, gaussCalls, randomValue>>
    ELSE SampleCall(kind, population, k, us)

\* choices(population, weights?, k) with this undefined: this.choice(population)
\* throws in the first of the k calls
ChoicesExport(kind, population, wkind, w, k0, rs) ==
    IF /\ ChoicesCheck(kind, population, wkind, w, ChoicesK(k0)) = "ok"
       /\ WeightsOmitted(wkind) /\ ChoicesK(k0).v > 0
    THEN /\ pc = "idle"
         /\ Return("choices", <<V(kind, 0), V(wkind, 0), k0>>, "TypeError", <<>>, 0)
         /\ arr' = population /\ arr0' = population /\ weights' = w /\ selected' = {}
         /\ UNCHANGED <<cachedGaussian, gaussCalls, randomValue>>
    ELSE ChoicesCall(kind, population, wkind, w, k0, rs)

\* gauss(mu, sigma) with this undefined: this.cachedGaussian throws
GaussExport(mu0, sigma0) ==
    IF GaussCheck(GaussMu(mu0), GaussSigma(sigma0)) = "ok"
    THEN /\ pc = "idle"
         /\ Return("gauss", <<GaussMu(mu0), GaussSigma(sigma0)>>, "TypeError", <<>>, 0)
         /\ NoArray
         /\ UNCHANGED <<cachedGaussian, gaussCalls, randomValue>>
    ELSE GaussCall(mu0, sigma0)

----------------------------------------------------------------------------
(* The state after construction: cachedGaussian = null, nothing called yet *)

\* what the constructor of SecureRandom finds
CryptoSources == {"web", "node", "none"}

Init ==
    /\ cachedGaussian = <<>>
    /\ gaussCalls = 0
    /\ op = "none"
    /\ args = <<>>
    /\ arr = <<>>
    /\ arr0 = <<>>
    /\ weights = <<>>
    /\ outcome = "none"
    /\ result = <<>>
    /\ ndraws = 0
    /\ pc = "idle"
    /\ selected = {}
    /\ randomValue = 0
    /\ detached = FALSE
    /\ crypto \in CryptoSources

----------------------------------------------------------------------------
(* Inputs *)

MaxLen == 4      \* arrays have at most MaxLen elements
MaxWeight == 2   \* weights range over 0 .. MaxWeight
MaxGaussCalls == 3  \* gauss calls counted between two clearCache calls

Ints == {I(n) : n \in -MaxInt .. MaxInt}
NonIntegers == {V("frac", 1), NaN, Infinity, NotANumber}

\* all sequences over S of length at most n
SeqsUpTo(S, n) == UNION {[1 .. m -> S] : m \in 0 .. n}
\* <<1, 2, ..., n>>
Iota(n) == [i \in 1 .. n |-> i]

\* the ranges secure.randint is called with: small ones and those around 2^32
SecureArgs ==
    {<<I(-1), I(r - 2)>> : r \in (1 .. MaxRange) \cup {UINT32 - 1, UINT32, UINT32 + 1}}
        \cup {<<I(1), I(0)>>, <<V("frac", 1), I(6)>>, <<I(0), NaN>>, <<NotANumber, I(1)>>}

\* the lengths secure.bytes is called with: small ones and those around the quota
SecureLengths == {I(-1), I(0), I(2), V("frac", 1), I(QuotaBytes), I(QuotaBytes + 1)}
\* the bytes of a call of secure.bytes(n)
SecureByteArrays(n) ==
    {[i \in 1 .. n |-> b] : b \in {0, Pow2(ByteBits) - 1}}
        \cup {[i \in 1 .. n |-> i % Pow2(ByteBits)]}

\* one call of secure.randint or of secure.bytes
NextSecure ==
    \/ op = "none" /\ \E a \in SecureArgs : OnInstance(SecureRandintCall(a[1], a[2]))
    \/ op = "none" /\ \E n \in SecureLengths :
           \E bs \in SecureByteArrays(IF n.t = "int" /\ n.v > 0 THEN n.v ELSE 0) :
               OnInstance(SecureBytesCall(n, bs))
    \/ \E bytes \in ByteArrays : Turn(SecureRandintDraw(bytes))

SpecSecure == Init /\ [][NextSecure]_vars

\* a range of many bits
LargeRange == Pow2(30)

RandintArgs ==
    ({I(n) : n \in (-MaxInt - 1) .. (MaxInt + 1)} \X {I(n) : n \in (-MaxInt - 1) .. (MaxInt + 1)})
        \cup {<<I(0), I(WideRange - 1)>>, <<I(-1), I(WideRange - 3)>>}
        \cup {<<I(0), I(LargeRange - 1)>>, <<I(-LargeRange \div 2), I(LargeRange \div 2)>>}
        \cup (NonIntegers \X {I(2), I(-MaxInt)}) \cup ({I(-1), I(MaxInt)} \X NonIntegers)

\* one call of randint
NextRandint ==
    op = "none" /\ \E a \in RandintArgs, g \in AllDraws : OnInstance(RandintCall(a[1], a[2], g))

SpecRandint == Init /\ [][NextRandint]_vars

\* one call of randrange
NextRandrange ==
    op = "none" /\ \E a \in Ints \cup {V("frac", 1)}, b \in Ints \cup {Undefined, NaN},
                      c \in {I(n) : n \in (-MaxInt - 1) .. (MaxInt + 1)}
                                \cup {Undefined, V("frac", 0)},
                      g \in Draws : OnInstance(RandrangeCall(a, b, c, g))

SpecRandrange == Init /\ [][NextRandrange]_vars

UniformValues ==
    Ints \cup {V("frac", n) : n \in -MaxInt .. MaxInt}
        \cup {NaN, Infinity, V("inf", -1), NotANumber}

\* one call of uniform
NextUniform ==
    op = "none" /\ \E min \in UniformValues, max \in UniformValues, g \in Draws \cup {LargestDraw} :
                      OnInstance(UniformCall(min, max, g))

SpecUniform == Init /\ [][NextUniform]_vars

\* the arrays shuffle and sample are called with: distinct elements, and repeated ones
Populations == {Iota(n) : n \in 0 .. MaxLen} \cup SeqsUpTo({1, 2}, MaxLen)
ArrayKinds == {"array", "arraylike", "undef"}

\* one call of shuffle
NextShuffle ==
    op = "none" /\ \E kind \in ArrayKinds, a \in Populations :
                      \E us \in DrawVectors(Len(a)) : OnInstance(ShuffleCall(kind, a, us))

SpecShuffle == Init /\ [][NextShuffle]_vars

\* one call of sample
NextSample ==
    \/ op = "none" /\ \E kind \in ArrayKinds, a \in Populations,
                         k \in {I(n) : n \in -1 .. MaxLen + 1} \cup {V("frac", 1), NaN} :
                        \E us \in DrawVectors(Len(a)) : OnInstance(SampleCall(kind, a, k, us))
    \/ \E g \in Draws : Turn(SampleStep(g))

SpecSample == Init /\ [][NextSample]_vars

\* one call of sample under fair draws: a value of Math.random() that the
\* loop can use is not withheld for ever
SpecSampleFair ==
    Init /\ [][NextSample]_vars /\ \A g \in Draws : WF_vars(Turn(SampleStep(g)))

MaxChoices == 2  \* choices draws at most MaxChoices elements
WeightArrays == SeqsUpTo(-1 .. MaxWeight, MaxLen - 1)
\* one call of choices
NextChoices ==
    op = "none" /\
        \E kind \in {"array", "arraylike"}, n \in 0 .. MaxLen - 1,
           wkind \in {"array", "undef", "falsy", "str"}, w \in WeightArrays,
           k \in {I(n) : n \in -1 .. MaxChoices} \cup {Undefined, V("frac", 0)} :
            \E rs \in [1 .. MaxChoices -> Draws] :
                /\ wkind # "array" => w = <<>>
                /\ OnInstance(ChoicesCall(kind, Iota(n), wkind, w, k, rs))

SpecChoices == Init /\ [][NextChoices]_vars

----------------------------------------------------------------------------
(* One Random and one SecureRandom instance, called again and again *)

InstanceDraws == {0, 1, Grid - 1}
InstanceArrays == {<<"array", <<1, 2, 3>>>>, <<"array", <<>>>>, <<"arraylike", <<1, 2>>>>,
                   <<"undef", <<>>>>}
InstancePairs == {<<I(1), I(2)>>, <<I(2), I(1)>>, <<V("frac", 1), I(2)>>, <<I(1), NaN>>,
                  <<NotANumber, I(1)>>, <<I(0), I(Grid - 1)>>}
InstanceGaussArgs == {<<Undefined, Undefined>>, <<V("frac", 0), I(2)>>, <<I(0), I(0)>>,
                      <<I(0), I(-1)>>, <<NaN, I(1)>>, <<I(0), Infinity>>, <<NotANumber, I(1)>>}
RandintStep ==
    \E a \in InstancePairs, g \in InstanceDraws : OnInstance(RandintCall(a[1], a[2], g))
RandrangeStep ==
    \E a \in InstancePairs, c \in {Undefined, I(0), I(-1)}, g \in {Grid - 1} :
        \/ OnInstance(RandrangeCall(a[1], a[2], c, g))
        \/ OnInstance(RandrangeCall(a[1], Undefined, c, g))
UniformStep ==
    \E a \in InstancePairs, g \in InstanceDraws \cup {LargestDraw} :
        OnInstance(UniformCall(a[1], a[2], g))
RandomStep == \E g \in InstanceDraws : OnInstance(RandomCall(g))
ChoiceStep ==
    \E a \in InstanceArrays, g \in InstanceDraws : OnInstance(ChoiceCall(a[1], a[2], g))
ShuffleStep ==
    \E a \in InstanceArrays : \E us \in [1 .. Len(a[2]) - 1 -> InstanceDraws] :
        OnInstance(ShuffleCall(a[1], a[2], us))
SampleStart ==
    \E a \in InstanceArrays, k \in {I(-1), I(0), I(1), I(2), I(4), V("frac", 1)} :
        \E us \in [1 .. Len(a[2]) - 1 -> {0, Grid - 1}] :
            OnInstance(SampleCall(a[1], a[2], k, us))
SampleTurn == \E g \in InstanceDraws : Turn(SampleStep(g))
ChoicesStep ==
    \E a \in InstanceArrays,
       w \in {<<"undef", <<>>>>, <<"array", <<0, 1, 1>>>>, <<"array", <<1, 1>>>>,
              <<"array", <<1, -1, 1>>>>, <<"array", <<0, 0, 0>>>>, <<"str", <<>>>>,
              <<"falsy", <<>>>>},
       k \in {Undefined, I(2), I(-1)} :
        \E rs \in {<<0, Grid - 1>>} : OnInstance(ChoicesCall(a[1], a[2], w[1], w[2], k, rs))
GaussStart ==
    gaussCalls < MaxGaussCalls /\ \E a \in InstanceGaussArgs : OnInstance(GaussCall(a[1], a[2]))
GaussTurn == \E g1 \in {0, 1}, g2 \in {0, Grid - 1} : Turn(GaussDraw(g1, g2))
ClearCacheStep == OnInstance(ClearCacheCall)
SecureRandintStart ==
    \E a \in InstancePairs \cup {<<I(0), I(UINT32 - 1)>>, <<I(0), I(2)>>} :
        OnInstance(SecureRandintCall(a[1], a[2]))
SecureChoiceStart == \E a \in InstanceArrays : OnInstance(SecureChoiceCall(a[1], a[2]))
SecureTurn == \E bytes \in {[i \in 1 .. 4 |-> b] : b \in ByteValues} : Turn(SecureRandintDraw(bytes))
SecureBytesStep ==
    \E n \in {I(-1), I(0), I(2), V("frac", 1)} :
        \E bs \in SecureByteArrays(IF n.t = "int" /\ n.v > 0 THEN n.v ELSE 0) :
            OnInstance(SecureBytesCall(n, bs))

\* the named exports, called as bare functions
RandintExport ==
    \E a \in InstancePairs, g \in {0, Grid - 1} : Exported(RandintCall(a[1], a[2], g))
UniformExport ==
    \E a \in InstancePairs, g \in {0, LargestDraw} : Exported(UniformCall(a[1], a[2], g))
ChoiceExport ==
    \E a \in InstanceArrays, g \in {0, Grid - 1} : Exported(ChoiceCall(a[1], a[2], g))
ShuffleExport ==
    \E a \in InstanceArrays : \E us \in [1 .. Len(a[2]) - 1 -> {0, Grid - 1}] :
        Exported(ShuffleCall(a[1], a[2], us))
SampleExportStart ==
    \E a \in InstanceArrays, k \in {I(-1), I(0), I(1), I(2)} :
        \E us \in [1 .. Len(a[2]) - 1 -> {0}] : Exported(SampleExport(a[1], a[2], k, us))
ChoicesExportStep ==
    \E a \in InstanceArrays, k \in {Undefined, I(0), I(-1)},
       w \in {<<"undef", <<>>>>, <<"falsy", <<>>>>, <<"array", <<0, 1, 1>>>>} :
        \E rs \in {<<0, Grid - 1>>} : Exported(ChoicesExport(a[1], a[2], w[1], w[2], k, rs))
GaussExportStep == \E a \in InstanceGaussArgs : Exported(GaussExport(a[1], a[2]))

Next ==
    \/ RandintStep
    \/ RandrangeStep
    \/ UniformStep
    \/ RandomStep
    \/ ChoiceStep
    \/ ShuffleStep
    \/ SampleStart
    \/ SampleTurn
    \/ ChoicesStep
    \/ GaussStart
    \/ GaussTurn
    \/ ClearCacheStep
    \/ SecureRandintStart
    \/ SecureChoiceStart
    \/ SecureTurn
    \/ SecureBytesStep
    \/ RandintExport
    \/ UniformExport
    \/ ChoiceExport
    \/ ShuffleExport
    \/ SampleExportStart
    \/ ChoicesExportStep
    \/ GaussExportStep

Spec == Init /\ [][Next]_vars

----------------------------------------------------------------------------
(* Claims about the instance *)

\* C4: on one Random instance, after any sequence of calls, the cached Gaussian
\* value is present iff the number of successful gauss calls since construction
\* or the last clearCache is odd; a successful gauss call has drawn from the
\* uniform source (a Box-Muller computation) exactly when the count before it
\* was even, and returns the cached second value otherwise.
C4_GaussCacheParity ==
    /\ cachedGaussian # <<>> <=> gaussCalls % 2 = 1
    /\ pc = "gauss.draw" => (gaussCalls % 2 = 0 /\ cachedGaussian = <<>>)
    /\ (op = "gauss" /\ outcome = "ok") =>
          /\ ndraws > 0 <=> (gaussCalls - 1) % 2 = 0
          /\ ndraws > 0 => (result[1] = 0 /\ cachedGaussian = <<result[2], result[3]>>)
          /\ ndraws = 0 => result[1] = 1

\* C4 witness: the third gauss call in a row has drawn a fresh pair
C4_Witness ==
    /\ op = "gauss" /\ outcome = "ok" /\ gaussCalls = 3
    /\ ndraws > 0 /\ cachedGaussian # <<>>

Errors == {"TypeError", "RangeError"}

\* C10: a call that fails validation (TypeError or RangeError) makes no draw
\* from the random source, returns nothing, leaves the cached Gaussian value as
\* it was and leaves its array argument unmodified.
C10_ValidationBeforeEffect ==
    [][outcome' \in Errors =>
          /\ ndraws' = 0 /\ pc' = "idle" /\ result' = <<>>
          /\ cachedGaussian' = cachedGaussian /\ gaussCalls' = gaussCalls
          /\ arr' = arr0']_vars

\* C10 witnesses: gauss fails with a value cached, and it stays cached
C10_Witness ==
    /\ op = "gauss" /\ outcome = "RangeError" /\ cachedGaussian # <<>>
    /\ args[2] = I(0) /\ ndraws = 0

----------------------------------------------------------------------------
(* Claims about SecureRandom.randint *)

\* a secure.randint call that passed validation
SecureAccepted == op = "secure.randint" /\ outcome \in {"running", "ok"}
SecureMin == args[1].v
SecureMax == args[2].v
SecureRange == SecureMax - SecureMin + 1
\* the draws (of all 32-bit unsigned draws) that secure.randint accepts and maps to v
SecureDrawsGiving(v) ==
    {d \in 0 .. UINT32 - 1 :
        ~SecureRejects(d, SecureRange) /\ SecureRandintValue(SecureMin, d, SecureRange) = v}

\* C1: secure.randint(min, max) with an accepted range is unbiased over exactly
\* [min, max]: a draw is accepted iff it is < floor(2^32/range)*range, every
\* accepted draw gives a result in [min, max], and every value of [min, max] is
\* the result of exactly floor(2^32/range) of the 2^32 possible draws.
C1_SecureRandintUnbiased ==
    SecureAccepted =>
        /\ ndraws > 0 =>
              (pc = "idle" <=> randomValue < (UINT32 \div SecureRange) * SecureRange)
        /\ outcome = "ok" =>
              /\ pc = "idle" /\ Len(result) = 1
              /\ result[1] \in SecureMin .. SecureMax
              /\ result[1] = SecureMin + (randomValue % SecureRange)
        /\ (pc = "secure.draw" /\ ndraws = 0) =>
              /\ {getRandomUint32(bytes) : bytes \in ByteArrays} = 0 .. UINT32 - 1
              /\ \A v \in SecureMin .. SecureMax :
                    Cardinality(SecureDrawsGiving(v)) = UINT32 \div SecureRange
              /\ \A d \in 0 .. UINT32 - 1 :
                    ~SecureRejects(d, SecureRange) =>
                        SecureRandintValue(SecureMin, d, SecureRange) \in SecureMin .. SecureMax

\* C1 witness: a range that does not divide 2^32 (range = 3), where a draw was
\* rejected and a later one accepted and mapped to max
C1_Witness ==
    /\ SecureAccepted /\ outcome = "ok" /\ SecureRange = 3
    /\ ndraws >= 2 /\ result[1] = SecureMax
    /\ UINT32 % SecureRange # 0

\* C9: secure.randint with integers min <= max throws RangeError exactly when
\* max-min+1 exceeds 2^32; every range from 1 up to and including 2^32 is
\* accepted.
C9_SecureRangeLimit ==
    (op = "secure.randint" /\ IsInteger(args[1]) /\ IsInteger(args[2])
        /\ args[1].v <= args[2].v) =>
        (outcome = "RangeError" <=> args[2].v - args[1].v + 1 > UINT32)

----------------------------------------------------------------------------
(* Claims about the methods of Random, one call each *)

\* the multiset of the elements of a sequence
SeqToBag(a) == [x \in {a[i] : i \in DOMAIN a} |-> Cardinality({i \in DOMAIN a : a[i] = x})]
\* no value occurs twice in a
Distinct(a) == \A i, j \in DOMAIN a : a[i] = a[j] => i = j
RECURSIVE Factorial(_)
Factorial(n) == IF n <= 0 THEN 1 ELSE n * Factorial(n - 1)

\* C2 as stated: sample(pop, k) returns exactly k elements, all distinct, all
\* drawn from pop, for every array pop and every 0 <= k <= length(pop).
C2_SampleDistinctValues ==
    (op = "sample" /\ outcome = "ok") =>
        /\ Len(result) = args[2].v
        /\ Distinct(result)
        /\ \A i \in DOMAIN result : \E j \in DOMAIN arr0 : result[i] = arr0[j]

\* C2 amended: sample(pop, k) succeeds for every array pop and 0 <= k <= length(pop)
\* and returns exactly k elements taken from k distinct positions of pop: no value
\* occurs more often in the result than in pop, so the result is free of
\* duplicates whenever pop is; in the rejection loop the indices selected are as
\* many as the elements kept, and pop is left as it was.
C2_SampleDistinctPositions ==
    op = "sample" =>
        /\ (IsArray(args[1].t) /\ IsInteger(args[2]) /\ args[2].v \in 0 .. Len(arr0))
              => outcome \in {"ok", "running"}
        /\ outcome = "ok" =>
              /\ Len(result) = args[2].v
              /\ SeqToBag(result) \sqsubseteq SeqToBag(arr0)
              /\ Distinct(arr0) => Distinct(result)
              /\ \A i \in DOMAIN result : \E j \in DOMAIN arr0 : result[i] = arr0[j]
        /\ outcome = "running" =>
              /\ pc = "sample.loop" /\ Len(result) < args[2].v
              /\ 2 * args[2].v <= Len(arr0)
        /\ (outcome \in {"ok", "running"} /\ ~SampleShuffles(args[2].v, Len(arr0))) =>
              /\ Cardinality(selected) = Len(result)
              /\ selected \subseteq 0 .. Len(arr0) - 1
              /\ SeqToBag(result) = SeqToBag([i \in 1 .. Len(result) |->
                    arr0[1 + CHOOSE x \in selected :
                        Cardinality({y \in selected : y < x}) = i - 1]])
        /\ arr = arr0

\* C2 witnesses: both branches on a population with a repeated value
C2_Witness ==
    /\ op = "sample" /\ outcome = "ok" /\ arr0 = <<1, 2, 1, 2>>
    /\ result = <<2, 2>> /\ selected = {1, 3} /\ ndraws = DrawCap

\* C3: shuffle leaves the multiset of the array unchanged, and on n distinct
\* elements the Fisher-Yates draw vectors (j in [0,i] for i = n-1 down to 1)
\* are exactly the n! vectors the draws can give, and they give n! different
\* arrangements: each permutation comes from exactly one draw vector.
C3_ShuffleBijection ==
    (op = "shuffle" /\ outcome = "ok") =>
        LET n == Len(arr0)
            jvectors == {[i \in 1 .. n - 1 |-> ShuffleIndex(us[i], i)] : us \in DrawVectors(n)}
            arrangements == {FisherYates(arr0, n - 1, us) : us \in DrawVectors(n)}
        IN /\ Len(arr) = n
           /\ SeqToBag(arr) = SeqToBag(arr0)
           /\ arr \in arrangements
           /\ jvectors = {jv \in [1 .. n - 1 -> 0 .. n - 1] : \A i \in 1 .. n - 1 : jv[i] <= i}
           /\ Cardinality(jvectors) = Factorial(n)
           /\ Distinct(arr0) => Cardinality(arrangements) = Factorial(n)

\* C3 witness: four distinct elements end reversed
C3_Witness ==
    op = "shuffle" /\ outcome = "ok" /\ arr0 = <<1, 2, 3, 4>> /\ arr = <<4, 3, 2, 1>>

\* Math.floor(p * 2^(e - SigBits + 1)) for the number p > 0 of l bits and e < 0
FloorBits(p, l, e) == BitsFrom(p, l - 1, l - SigBits + 1 + e)

\* Math.floor of the number x * n itself, which is not rounded, for a
\* double 0 <= x < 1
FloorExact(x, n) ==
    IF x = Zero \/ n = 0 THEN 0
    ELSE FloorBits(LimbProduct(SignificandLimbs(x), IntegerLimbs(n)),
                   BitLength(LimbProduct(SignificandLimbs(x), IntegerLimbs(n))), x[3])

\* x is a multiple of 2^-52, for a double 0 <= x < 1
EngineGrid(x) ==
    \/ x = Zero
    \/ -x[3] <= LowBits /\ x[2] % Pow2(-x[3]) = 0
    \/ /\ -x[3] > LowBits /\ -x[3] <= 2 * LowBits
       /\ x[2] = 0 /\ x[1] % Pow2(-x[3] - LowBits) = 0

\* the draws of an engine whose Math.random() returns multiples of 2^-52 only (V8)
EngineDraws == {g \in AllDraws : EngineGrid(Draw(g))}

\* C5: for integers min <= max with a range within the safe-integer limit,
\* randint(min, max) is an integer in [min, max] for every draw u: it is
\* Math.floor(u * (max - min + 1)) + min with the product rounded to a double,
\* which is the floor of the product itself or one more; min and max are each
\* returned for some draw, and for some draw of an engine whose draws are
\* multiples of 2^-52 as long as the range is 2^52 at most.
C5_RandintInRange ==
    (op = "randint" /\ IsInteger(args[1]) /\ IsInteger(args[2])
        /\ args[1].v <= args[2].v /\ ~AboveMaxSafeInteger(args[2].v - args[1].v + 1)) =>
        LET min == args[1].v
            max == args[2].v
        IN /\ outcome = "ok" /\ Len(result) = 1
           /\ result[1] \in min .. max
           /\ \E g \in AllDraws :
                  /\ result[1] = Floor(Product(Draw(g), max - min + 1)) + min
                  /\ result[1] - min - FloorExact(Draw(g), max - min + 1) \in {0, 1}
           /\ \E g \in AllDraws : RandintValue(min, max, g) = min
           /\ \E g \in AllDraws : RandintValue(min, max, g) = max
           /\ ~AtLeastPow2(max - min, SigBits - 1) =>
                  /\ \E g \in EngineDraws : RandintValue(min, max, g) = min
                  /\ \E g \in EngineDraws : RandintValue(min, max, g) = max

\* C5 witness: the upper endpoint of a range of many bits is returned
C5_Witness ==
    /\ op = "randint" /\ outcome = "ok"
    /\ args[2].v - args[1].v + 1 = LargeRange /\ result[1] = args[2].v

\* the members of the progression start, start + step, ... before stop
Progression(start, stop, step) ==
    {x \in (-4 * (MaxInt + 1)) .. (4 * (MaxInt + 1)) :
        /\ \E i \in 0 .. 2 * (MaxInt + 1) : x = start + i * step
        /\ IF step > 0 THEN x < stop ELSE x > stop}
Abs(x) == IF x < 0 THEN -x ELSE x
\* ceil(a / b) for a >= 0, b > 0
CeilDiv(a, b) == (a + b - 1) \div b

\* C6: for integers start, stop, step of a non-empty progression (the
\* one-argument form meaning start = 0, step = 1), randrange computes
\* n = ceil(|stop-start| / |step|) and returns start + i*step with 0 <= i < n:
\* a member of the progression, strictly before stop in the direction of step,
\* and every member is returned for some draw.
C6_RandrangeProgression ==
    op = "randrange" =>
        LET a == RangeStart(args[1], args[2])
            b == RangeStop(args[1], args[2])
            c == RangeStep(args[3])
        IN /\ (args[2].t = "undef" /\ args[3].t = "undef")
                 => (a = I(0) /\ b = args[1] /\ c = I(1))
           /\ (IsInteger(a) /\ IsInteger(b) /\ IsInteger(c)
                 /\ ((c.v > 0 /\ b.v > a.v) \/ (c.v < 0 /\ b.v < a.v))) =>
                 LET n == RangeLength(b.v - a.v, c.v)
                     members == Progression(a.v, b.v, c.v)
                 IN /\ outcome = "ok" /\ Len(result) = 1
                    /\ n = CeilDiv(Abs(b.v - a.v), Abs(c.v))
                    /\ n = Cardinality(members)
                    /\ \E i \in 0 .. n - 1 : result[1] = a.v + i * c.v
                    /\ result[1] \in members
                    /\ IF c.v > 0 THEN result[1] < b.v ELSE result[1] > b.v
                    /\ \A x \in members :
                          \E g \in Draws : RandrangeValue(a.v, b.v, c.v, g) = x
           /\ outcome = "ok" => (IsInteger(a) /\ IsInteger(b) /\ IsInteger(c)
                 /\ ((c.v > 0 /\ b.v > a.v) \/ (c.v < 0 /\ b.v < a.v)))

\* C6 witness: a descending progression whose step does not divide its width
\* returns its last member
C6_Witness ==
    /\ op = "randrange" /\ outcome = "ok"
    /\ args = <<I(2), I(-1), I(-2)>> /\ result = <<0>>

\* C7: for finite min, max that pass validation (not min > max) and every
\* draw, uniform(min, max) returns v with min <= v < max.
C7_UniformHalfOpen ==
    (op = "uniform" /\ outcome = "ok") =>
        /\ \/ Halves(args[1]) * Grid < result[1]
           \/ Halves(args[1]) * Grid = result[1] /\ result[2] = 0
        /\ \/ result[1] < Halves(args[2]) * Grid
           \/ result[1] = Halves(args[2]) * Grid /\ result[2] > 0

\* C8: in choices with valid weights, for every draw r in [0,1), r = 0
\* included, the index the binary search locates has a positive weight: an
\* element whose weight is 0 is never returned.
C8_ChoicesPositiveWeight ==
    (op = "choices" /\ outcome = "ok" /\ args[2].t = "array") =>
        \A i \in DOMAIN result : \E j \in DOMAIN arr : arr[j] = result[i] /\ weights[j] > 0

\* C11: randint throws TypeError whenever either argument is not an integer,
\* also when min > max holds as well (the type test comes first), and
\* RangeError whenever both are integers with min > max; in both cases no
\* value is returned and no draw is made.
C11_RandintErrors ==
    op = "randint" =>
        /\ (~IsInteger(args[1]) \/ ~IsInteger(args[2])) =>
              (outcome = "TypeError" /\ result = <<>> /\ ndraws = 0)
        /\ (IsInteger(args[1]) /\ IsInteger(args[2]) /\ args[1].v > args[2].v) =>
              (outcome = "RangeError" /\ result = <<>> /\ ndraws = 0)

\* C11 witness: randint(1.5, -MaxInt), a non-integer min above max, threw
\* TypeError
C11_Witness ==
    /\ op = "randint" /\ args = <<V("frac", 1), I(-MaxInt)>>
    /\ Halves(args[1]) > Halves(args[2])
    /\ outcome = "TypeError" /\ result = <<>>

\* C12: a valid gauss(mu, sigma) called on the instance while a value z is
\* cached makes no draw, returns z * sigma + mu with the mu and sigma of this
\* call and leaves the cache empty; called with the cache empty it enters the
\* Box-Muller draws, returns z0 * sigma + mu and leaves the z1 of the same
\* pair cached.
C12_GaussCacheUse ==
    [][/\ (pc = "idle" /\ cachedGaussian # <<>> /\ op' = "gauss" /\ ~detached'
            /\ GaussCheck(args'[1], args'[2]) = "ok") =>
              /\ outcome' = "ok" /\ pc' = "idle" /\ ndraws' = 0
              /\ result' = <<1>> \o cachedGaussian
                                \o <<Halves(args'[2]), Halves(args'[1])>>
              /\ cachedGaussian' = <<>>
       /\ (pc = "idle" /\ cachedGaussian = <<>> /\ op' = "gauss" /\ ~detached'
            /\ GaussCheck(args'[1], args'[2]) = "ok") =>
              (pc' = "gauss.draw" /\ cachedGaussian' = <<>>)
       /\ (pc = "gauss.draw" /\ outcome' = "ok") =>
              /\ cachedGaussian = <<>> /\ ndraws' > 0
              /\ \E g1 \in Draws \ {0}, g2 \in Draws :
                    /\ result' = <<0, g1, g2, Halves(args'[2]), Halves(args'[1])>>
                    /\ cachedGaussian' = <<g1, g2>>
      ]_vars

\* C12 witness: gauss(0.5, 2) returned the cached z1 scaled by its own
\* sigma = 2 and mu = 0.5, without a draw, and emptied the cache
C12_Witness ==
    /\ op = "gauss" /\ outcome = "ok" /\ args = <<V("frac", 0), I(2)>>
    /\ ndraws = 0 /\ result[1] = 1 /\ result[4] = 4 /\ result[5] = 1
    /\ cachedGaussian = <<>>

\* C13: sample terminates.  In the rejection loop (k <= n/2) fewer than k
\* indices are selected at every iteration, so at least half of the indices
\* of [0, n) are still acceptable; under fair draws the loop ends with
\* exactly k distinct indices selected; the shuffle branch (k > n/2) ends
\* within the call after exactly n - 1 swaps.
C13_SampleTerminates ==
    /\ [](pc = "sample.loop" =>
            LET n == Len(arr)
                k == args[2].v
            IN /\ 2 * k <= n
               /\ Cardinality(selected) < k /\ Len(result) = Cardinality(selected)
               /\ selected \subseteq 0 .. n - 1
               /\ 2 * Cardinality((0 .. n - 1) \ selected) >= n)
    /\ []((op = "sample" /\ outcome \in {"ok", "running"} /\ 2 * args[2].v > Len(arr0)) =>
            (outcome = "ok" /\ pc = "idle" /\ ndraws = Len(arr0) - 1))
    /\ (pc = "sample.loop") ~>
            (/\ pc = "idle" /\ op = "sample" /\ outcome = "ok"
             /\ Cardinality(selected) = args[2].v /\ Len(result) = args[2].v)

\* C13 witness: sample of 2 out of [1, 2, 3, 4] left its loop with two
\* distinct indices after at least one rejected draw
C13_Witness ==
    /\ op = "sample" /\ outcome = "ok" /\ pc = "idle"
    /\ arr0 = <<1, 2, 3, 4>> /\ args[2] = I(2)
    /\ Cardinality(selected) = 2 /\ Len(result) = 2 /\ ndraws = DrawCap

====
